---------------------------- MODULE Spec2Model ----------------------------
(***************************************************************************)
(* Model of hydragram/peer_resolve.py: PeerResolver.resolve and its        *)
(* helpers.  A string is a sequence of one-character strings.  A peer      *)
(* identifier is a record [t, i, s]: t is "none", "int" or "str", i the    *)
(* integer value (0 unless t = "int"), s the text (<<>> unless t = "str"). *)
(***************************************************************************)
EXTENDS Integers, Sequences, FiniteSets, TLC

(***************************************************************************)
(* Bounds of the model.                                                    *)
(*                                                                         *)
(* Telegram's id ranges are kept in shape but scaled down: the library     *)
(* uses MAX_CHANNEL_ID = -10^12, MIN_CHANNEL_ID = -(10^12 + 2^31 - 1),      *)
(* MIN_CHAT_ID = -(2^31 - 1), MAX_USER_ID = 10^12 - 1.  IdBase stands for  *)
(* 10^12 and IdWidth for 2^31.                                             *)
(***************************************************************************)
IdBase == 10
IdWidth == 4
MaxBodyLen == 3
MaxNameLen == 2
MaxRawId == 2

---------------------------------------------------------------------------
(* Characters *)

LowerLetters == {"a", "c", "d", "e", "f", "g", "h", "l", "m", "n", "o", "p", "r", "s", "t"}
UpperLetters == {"A", "C", "E", "M", "T"}
DigitChars == {"0", "1", "2", "3", "4", "5", "6", "7", "8", "9"}

\* str.lower() on one character
LowerChar(c) ==
    CASE c = "A" -> "a"
      [] c = "C" -> "c"
      [] c = "E" -> "e"
      [] c = "M" -> "m"
      [] c = "T" -> "t"
      [] OTHER -> c

\* str.lower()
Lower(str) == [k \in 1..Len(str) |-> LowerChar(str[k])]

\* the regex class \w: letters, digits and the underscore
IsWordChar(c) == c \in LowerLetters \cup UpperLetters \cup DigitChars \cup {"_"}

\* the regex class [@+\s]
IsDecoration(c) == c \in {"@", "+", " "}

DigitVal(c) ==
    CASE c = "0" -> 0 [] c = "1" -> 1 [] c = "2" -> 2 [] c = "3" -> 3
      [] c = "4" -> 4 [] c = "5" -> 5 [] c = "6" -> 6 [] c = "7" -> 7
      [] c = "8" -> 8 [] c = "9" -> 9

---------------------------------------------------------------------------
(* Strings *)

StartsWith(str, p) == Len(str) >= Len(p) /\ SubSeq(str, 1, Len(p)) = p
Drop(str, n) == SubSeq(str, n + 1, Len(str))

\* the greedy match of [\w]+ at the start of str; <<>> when it does not match
WordRun(str) ==
    LET n == CHOOSE k \in 0..Len(str) :
                 /\ \A j \in 1..k : IsWordChar(str[j])
                 /\ (k = Len(str) \/ ~IsWordChar(str[k + 1]))
    IN SubSeq(str, 1, n)

\* re.sub with count=1: only the first decoration character is removed
RECURSIVE StripFirstDecoration(_)
StripFirstDecoration(str) ==
    IF str = <<>> THEN <<>>
    ELSE IF IsDecoration(Head(str)) THEN Tail(str)
    ELSE <<Head(str)>> \o StripFirstDecoration(Tail(str))

\* re.sub(r"[@+\s]", "", str): every decoration character is removed
RECURSIVE StripDecorations(_)
StripDecorations(str) ==
    IF str = <<>> THEN <<>>
    ELSE IF IsDecoration(Head(str)) THEN StripDecorations(Tail(str))
    ELSE <<Head(str)>> \o StripDecorations(Tail(str))

\* int(str) accepts digits with single underscores between them
IsIntLiteral(str) ==
    /\ str # <<>>
    /\ \A k \in 1..Len(str) : str[k] \in DigitChars \cup {"_"}
    /\ str[1] # "_"
    /\ str[Len(str)] # "_"
    /\ \A k \in 1..(Len(str) - 1) : ~(str[k] = "_" /\ str[k + 1] = "_")

RECURSIVE IntAcc(_, _)
IntAcc(str, acc) ==
    IF str = <<>> THEN acc
    ELSE IF Head(str) = "_" THEN IntAcc(Tail(str), acc)
    ELSE IntAcc(Tail(str), 10 * acc + DigitVal(Head(str)))

\* int(str) for a str that IsIntLiteral
IntOf(str) == IntAcc(str, 0)

---------------------------------------------------------------------------
(* pyrogram.utils, as called by the resolver *)

MAX_CHANNEL_ID == 0 - IdBase
MIN_CHANNEL_ID == 0 - (IdBase + IdWidth - 1)
MIN_CHAT_ID == 0 - (IdWidth - 1)
MAX_USER_ID == IdBase - 1

\* utils.get_channel_id
get_channel_id(peer_id) == MAX_CHANNEL_ID - peer_id

\* utils.get_peer_type; "ValueError" when the id is in no range
get_peer_type(peer_id) ==
    IF peer_id < 0
    THEN IF MIN_CHAT_ID <= peer_id THEN "chat"
         ELSE IF MIN_CHANNEL_ID <= peer_id /\ peer_id < MAX_CHANNEL_ID THEN "channel"
         ELSE "ValueError"
    ELSE IF 0 < peer_id /\ peer_id <= MAX_USER_ID THEN "user"
    ELSE "ValueError"

---------------------------------------------------------------------------
(* Identifiers *)

NoneId == [t |-> "none", i |-> 0, s |-> <<>>]
IntId(n) == [t |-> "int", i |-> n, s |-> <<>>]
StrId(str) == [t |-> "str", i |-> 0, s |-> str]

---------------------------------------------------------------------------
(* _parse_input_string *)

HttpsScheme == <<"h", "t", "t", "p", "s", ":", "/", "/">>
HttpScheme == <<"h", "t", "t", "p", ":", "/", "/">>
TMeHost == <<"t", ".", "m", "e", "/">>
TelegramOrgHost == <<"t", "e", "l", "e", "g", "r", "a", "m", ".", "o", "r", "g", "/">>
TelegramMeHost == <<"t", "e", "l", "e", "g", "r", "a", "m", ".", "m", "e", "/">>
TelegramDogHost == <<"t", "e", "l", "e", "g", "r", "a", "m", ".", "d", "o", "g", "/">>
LinkHosts == {TMeHost, TelegramOrgHost, TelegramMeHost, TelegramDogHost}
CPrefix == <<"c", "/">>

\* (?:c/)?([\w]+) at the start of str: group 1, or <<>> when there is no match.
\* The optional c/ is greedy and given back when no word character follows it.
GroupAfterHost(str) ==
    LET withC == IF StartsWith(str, CPrefix) THEN WordRun(Drop(str, 2)) ELSE <<>>
    IN IF withC # <<>> THEN withC ELSE WordRun(str)

\* (?:t\.me/|telegram\.(?:org|me|dog)/)(?:c/)?([\w]+) at the start of str
GroupAtHost(str) ==
    IF \E h \in LinkHosts : StartsWith(str, h)
    THEN LET h == CHOOSE x \in LinkHosts : StartsWith(str, x)
         IN GroupAfterHost(Drop(str, Len(h)))
    ELSE <<>>

\* re.match of the whole link pattern: group 1, or <<>> when there is no match
LinkMatch(str) ==
    LET withScheme ==
            IF StartsWith(str, HttpsScheme) THEN GroupAtHost(Drop(str, Len(HttpsScheme)))
            ELSE IF StartsWith(str, HttpScheme) THEN GroupAtHost(Drop(str, Len(HttpScheme)))
            ELSE <<>>
    IN IF withScheme # <<>> THEN withScheme ELSE GroupAtHost(str)

parse_input_string(peer_id) ==
    LET low == Lower(peer_id)
        group == LinkMatch(low)
    IN IF group # <<>>
       THEN IF IsIntLiteral(group)
            THEN IntId(get_channel_id(IntOf(group)))
            ELSE StrId(group)
       ELSE StrId(StripDecorations(low))

---------------------------------------------------------------------------
(* Inputs *)

BodyAlphabet == {"a", "A", "c", "0", "1", "_", "+", "/"}
Bodies(n) == UNION {[1..k -> BodyAlphabet] : k \in 0..n}

SelfStr == <<"s", "e", "l", "f">>
MeStr == <<"m", "e">>
UpperMeStr == <<"M", "E">>

\* the identifiers resolve is called with
IntIds == (MIN_CHANNEL_ID - 1)..(MAX_USER_ID + 1)
ResolveStrings ==
    {SelfStr, MeStr, UpperMeStr} \cup
    {pre \o host \o b : pre \in {<<>>, <<"@">>},
                        host \in {<<>>, TMeHost, HttpsScheme \o TMeHost},
                        b \in Bodies(MaxNameLen)}
PeerIds == {NoneId} \cup {IntId(n) : n \in IntIds} \cup {StrId(x) : x \in ResolveStrings}

\* the strings _parse_input_string is applied to
ParseInputs(n) ==
    {pre \o sch \o host \o b :
        pre \in {<<>>, <<"@">>, <<" ">>},
        sch \in {<<>>, HttpScheme, HttpsScheme},
        host \in LinkHosts \cup {<<>>, <<"T", ".", "m", "e", "/">>},
        b \in Bodies(n)}

\* the raw ids the server answers with
RawIds == 1..MaxRawId

---------------------------------------------------------------------------
(* State *)

VARIABLES
    is_connected,   \* client.is_connected
    use_cache,      \* the use_cache argument
    arg,            \* the peer_id argument as passed by the caller
    peer_id,        \* the local peer_id, reassigned by normalization
    pc,             \* where the call of resolve stands
    result,         \* what resolve returned or raised
    calls,          \* the calls resolve has made so far, in order
    parse_in,       \* input of a stand-alone _parse_input_string
    parse_out,      \* its result
    parse_again,    \* the result of parsing that result once more
    parse_pc        \* how many times _parse_input_string has been applied

vars == <<is_connected, use_cache, arg, peer_id, pc, result, calls,
          parse_in, parse_out, parse_again, parse_pc>>
resolveVars == <<is_connected, use_cache, arg, peer_id, pc, result, calls>>
parseVars == <<parse_in, parse_out, parse_again, parse_pc>>

Pending == [kind |-> "pending", what |-> "", id |-> 0]
Return(what, id) == [kind |-> "return", what |-> what, id |-> id]
Raise(what) == [kind |-> "raise", what |-> what, id |-> 0]

Call(op, id, name, out) == [op |-> op, id |-> id, name |-> name, out |-> out]

---------------------------------------------------------------------------
(* resolve *)

\* the identity shortcut taken before the connection check
Entry_ShortcutFirst(connected, pid, uc) ==
    IF pid \in {NoneId, StrId(SelfStr), StrId(MeStr)}
    THEN [pc |-> "done", result |-> Return("InputPeerSelf", 0)]
    ELSE IF ~connected THEN [pc |-> "done", result |-> Raise("ConnectionError")]
    ELSE IF uc THEN [pc |-> "cache", result |-> Pending]
    ELSE [pc |-> "normalize", result |-> Pending]

\* the cache tier skipped whatever use_cache says
Entry_NoCacheTier(connected, pid, uc) ==
    IF ~connected THEN [pc |-> "done", result |-> Raise("ConnectionError")]
    ELSE IF pid \in {NoneId, StrId(SelfStr), StrId(MeStr)}
    THEN [pc |-> "done", result |-> Return("InputPeerSelf", 0)]
    ELSE [pc |-> "normalize", result |-> Pending]

\* lines 21-27: the connection check, the identity shortcut, the cache flag
Entry(connected, pid, uc) ==
    IF ~connected THEN [pc |-> "done", result |-> Raise("ConnectionError")]
    ELSE IF pid \in {NoneId, StrId(SelfStr), StrId(MeStr)}
    THEN [pc |-> "done", result |-> Return("InputPeerSelf", 0)]
    ELSE IF uc THEN [pc |-> "cache", result |-> Pending]
    ELSE [pc |-> "normalize", result |-> Pending]

Enter ==
    /\ pc = "start"
    /\ pc' = Entry(is_connected, peer_id, use_cache).pc
    /\ result' = Entry(is_connected, peer_id, use_cache).result
    /\ UNCHANGED <<is_connected, use_cache, arg, peer_id, calls>>
    /\ UNCHANGED parseVars

\* an except clause that forgets sqlite3.OperationalError
IsCacheMiss_NoOperationalError(exc) == exc \in {"KeyError", "AttributeError"}

\* line 32: the exceptions the cache tier recovers from
IsCacheMiss(exc) == exc \in {"KeyError", "AttributeError", "OperationalError"}

\* lines 28-33: an exception leaving the cache tier is logged and dropped when
\* it is a cache miss, and raised to the caller otherwise
CacheFailure(exc) ==
    IF IsCacheMiss(exc) THEN [pc |-> "normalize", result |-> Pending]
    ELSE [pc |-> "done", result |-> Raise(exc)]

\* line 31: client.storage.get_peer_by_id(peer_id)
CachedId ==
    /\ pc = "cache"
    /\ peer_id.t = "int"
    /\ \E out \in {"hit", "KeyError", "AttributeError"} :
        /\ calls' = Append(calls, Call("get_peer_by_id", peer_id.i, <<>>, out))
        /\ IF out = "hit"
           THEN pc' = "done" /\ result' = Return("StoredPeer", peer_id.i)
           ELSE pc' = CacheFailure(out).pc /\ result' = CacheFailure(out).result
    /\ UNCHANGED <<is_connected, use_cache, arg, peer_id>>
    /\ UNCHANGED parseVars

\* lines 30, 45-47: client.storage.get_peer_by_username(username); only an
\* AttributeError is handled inside _resolve_cached_username
CachedUsername ==
    /\ pc = "cache"
    /\ peer_id.t = "str"
    /\ \E out \in {"hit", "KeyError", "AttributeError"} :
        /\ calls' = Append(calls, Call("get_peer_by_username", 0, peer_id.s, out))
        /\ IF out = "hit"
           THEN pc' = "done" /\ result' = Return("StoredPeer", 0)
           ELSE IF out = "AttributeError"
           THEN pc' = "sqlite_execute" /\ result' = Pending
           ELSE pc' = CacheFailure(out).pc /\ result' = CacheFailure(out).result
    /\ UNCHANGED <<is_connected, use_cache, arg, peer_id>>
    /\ UNCHANGED parseVars

\* lines 48-51: client.storage.conn.execute(..., (username.lower(),)); the
\* storage may have no conn attribute, and the query may fail
SqliteExecute ==
    /\ pc = "sqlite_execute"
    /\ \E out \in {"cursor", "AttributeError", "OperationalError"} :
        /\ calls' = Append(calls, Call("conn.execute", 0, Lower(peer_id.s), out))
        /\ IF out = "cursor"
           THEN pc' = "sqlite_fetchone" /\ result' = Pending
           ELSE pc' = CacheFailure(out).pc /\ result' = CacheFailure(out).result
    /\ UNCHANGED <<is_connected, use_cache, arg, peer_id>>
    /\ UNCHANGED parseVars

\* lines 52-54: cursor.fetchone(); no row raises KeyError
SqliteFetchone ==
    /\ pc = "sqlite_fetchone"
    /\ \E out \in {"row", "OperationalError", "none"} :
        /\ calls' = Append(calls, Call("cursor.fetchone", 0, Lower(peer_id.s), out))
        /\ IF out = "row"
           THEN pc' = "done" /\ result' = Return("StoredPeer", 0)
           ELSE IF out = "none"
           THEN pc' = CacheFailure("KeyError").pc
                /\ result' = CacheFailure("KeyError").result
           ELSE pc' = CacheFailure(out).pc /\ result' = CacheFailure(out).result
    /\ UNCHANGED <<is_connected, use_cache, arg, peer_id>>
    /\ UNCHANGED parseVars

\* lines 35-40: a string is normalized; what is still a string goes to the
\* username tier, an integer to the numeric tier
Normalize ==
    /\ pc = "normalize"
    /\ IF peer_id.t = "str"
       THEN /\ peer_id' = parse_input_string(peer_id.s)
            /\ calls' = Append(calls, Call("_parse_input_string", 0, peer_id.s, "ok"))
            /\ pc' = IF peer_id'.t = "str" THEN "username_api" ELSE "by_id"
       ELSE /\ pc' = "by_id"
            /\ UNCHANGED <<peer_id, calls>>
    /\ UNCHANGED <<is_connected, use_cache, arg, result>>
    /\ UNCHANGED parseVars

\* the peers a contacts.ResolveUsername answer can carry; "None" is an answer
\* without a peer attribute
ServerPeers ==
    {[type |-> ty, id |-> n] : ty \in {"PeerUser", "PeerChannel", "PeerChat"}, n \in RawIds}
    \cup {[type |-> "None", id |-> 0]}

\* a basic-chat peer accepted as well
username_api_result_AcceptsChat(peer) ==
    IF peer.type = "PeerUser" THEN Return("InputPeerUser", peer.id)
    ELSE IF peer.type = "PeerChannel"
    THEN Return("InputPeerChannel", MAX_CHANNEL_ID - peer.id)
    ELSE IF peer.type = "PeerChat" THEN Return("InputPeerChat", peer.id)
    ELSE Raise("PeerIdInvalid")

\* lines 75-87: the reference built from the answer's peer
username_api_result(peer) ==
    IF peer.type = "PeerUser" THEN Return("InputPeerUser", peer.id)
    ELSE IF peer.type = "PeerChannel"
    THEN Return("InputPeerChannel", get_channel_id(peer.id))
    ELSE Raise("PeerIdInvalid")

\* an error of the username tier caught, the numeric-id tier tried next
AfterUsernameApi_FallsThrough(res) == IF res.kind = "raise" THEN "by_id" ELSE "done"

\* line 38: resolve returns what _resolve_username_api returns and handles
\* none of its exceptions
AfterUsernameApi(res) == "done"

\* lines 38, 70-87
ResolveUsernameApi ==
    /\ pc = "username_api"
    /\ \E peer \in ServerPeers :
        /\ calls' = Append(calls, Call("ResolveUsername", peer.id, peer_id.s, peer.type))
        /\ result' = username_api_result(peer)
        /\ pc' = AfterUsernameApi(username_api_result(peer))
    /\ UNCHANGED <<is_connected, use_cache, arg, peer_id>>
    /\ UNCHANGED parseVars

\* the marked id sent to GetChannels as it is
by_id_request_MarkedId(id) ==
    IF id < 0
    THEN IF MIN_CHAT_ID <= id THEN [op |-> "GetChats", id |-> 0 - id]
         ELSE IF MIN_CHANNEL_ID <= id /\ id < MAX_CHANNEL_ID
         THEN [op |-> "GetChannels", id |-> id]
         ELSE [op |-> "none", id |-> 0]
    ELSE IF 0 < id /\ id <= MAX_USER_ID THEN [op |-> "GetUsers", id |-> id]
    ELSE [op |-> "none", id |-> 0]

\* lines 92-117: the request _resolve_by_id sends for an id, by its type
by_id_request(id) ==
    LET peer_type == get_peer_type(id)
    IN IF peer_type = "ValueError" THEN [op |-> "none", id |-> 0]
       ELSE IF peer_type = "user" THEN [op |-> "GetUsers", id |-> id]
       ELSE IF peer_type = "chat" THEN [op |-> "GetChats", id |-> 0 - id]
       ELSE [op |-> "GetChannels", id |-> get_channel_id(id)]

\* lines 40, 90-117: the answer is a list, which may be empty; its first
\* element is turned into a reference
ResolveById ==
    /\ pc = "by_id"
    /\ LET req == by_id_request(peer_id.i)
       IN IF req.op = "none"
          THEN /\ result' = Raise("ValueError")
               /\ UNCHANGED calls
          ELSE \E first \in RawIds \cup {0} :
                /\ calls' = Append(calls,
                      Call(req.op, req.id, <<>>, IF first = 0 THEN "empty" ELSE "list"))
                /\ result' = IF first = 0 THEN Raise("IndexError")
                             ELSE Return("InputPeer", first)
    /\ pc' = "done"
    /\ UNCHANGED <<is_connected, use_cache, arg, peer_id>>
    /\ UNCHANGED parseVars

---------------------------------------------------------------------------
(* Specification of one call of resolve *)

ParseIdle ==
    /\ parse_in = <<>>
    /\ parse_out = NoneId
    /\ parse_again = NoneId
    /\ parse_pc = 0

Init ==
    /\ is_connected \in BOOLEAN
    /\ use_cache \in BOOLEAN
    /\ arg \in PeerIds
    /\ peer_id = arg
    /\ pc = "start"
    /\ result = Pending
    /\ calls = <<>>
    /\ ParseIdle

Next ==
    \/ Enter
    \/ CachedId
    \/ CachedUsername
    \/ SqliteExecute
    \/ SqliteFetchone
    \/ Normalize
    \/ ResolveUsernameApi
    \/ ResolveById

Spec == Init /\ [][Next]_vars

---------------------------------------------------------------------------
(* Specification of _parse_input_string applied once and then once more *)

ParseOnce ==
    /\ parse_pc = 0
    /\ parse_out' = parse_input_string(parse_in)
    /\ parse_pc' = 1
    /\ UNCHANGED <<parse_in, parse_again>>
    /\ UNCHANGED resolveVars

ParseAgain ==
    /\ parse_pc = 1
    /\ parse_out.t = "str"
    /\ parse_again' = parse_input_string(parse_out.s)
    /\ parse_pc' = 2
    /\ UNCHANGED <<parse_in, parse_out>>
    /\ UNCHANGED resolveVars

InitParse ==
    /\ parse_in \in ParseInputs(MaxBodyLen)
    /\ parse_out = NoneId
    /\ parse_again = NoneId
    /\ parse_pc = 0
    /\ is_connected = TRUE
    /\ use_cache = TRUE
    /\ arg = NoneId
    /\ peer_id = NoneId
    /\ pc = "idle"
    /\ result = Pending
    /\ calls = <<>>

NextParse ==
    \/ ParseOnce
    \/ ParseAgain

SpecParse == InitParse /\ [][NextParse]_vars

---------------------------------------------------------------------------
(* Vocabulary of the properties *)

StorageOps == {"get_peer_by_id", "get_peer_by_username", "conn.execute", "cursor.fetchone"}
ByIdOps == {"GetUsers", "GetChats", "GetChannels"}
InvokeOps == ByIdOps \cup {"ResolveUsername"}

IsStorageCall(c) == c.op \in StorageOps
IsInvoke(c) == c.op \in InvokeOps

\* a storage call that answered with a peer
IsHit(c) == IsStorageCall(c) /\ c.out \in {"hit", "row"}

\* a storage call with which the cache tier failed
IsMiss(c) ==
    \/ c.op = "get_peer_by_id" /\ c.out \in {"KeyError", "AttributeError"}
    \/ c.op = "get_peer_by_username" /\ c.out = "KeyError"
    \/ c.op = "conn.execute" /\ c.out \in {"AttributeError", "OperationalError"}
    \/ c.op = "cursor.fetchone" /\ c.out \in {"none", "OperationalError"}

\* the tier a call belongs to: (b) cache, (c) normalization, (d) username, (e) numeric id
TierOf(c) ==
    IF IsStorageCall(c) THEN 2
    ELSE IF c.op = "_parse_input_string" THEN 3
    ELSE IF c.op = "ResolveUsername" THEN 4
    ELSE 5

Calls == 1..Len(calls)
Shortcut == arg \in {NoneId, StrId(SelfStr), StrId(MeStr)}

---------------------------------------------------------------------------
(* C1 *)

\* the tiers are attempted in the order (b), (c), (d), (e)
TiersInOrder == \A j \in Calls : \A k \in Calls : j < k => TierOf(calls[j]) <= TierOf(calls[k])

\* a call is made only if no earlier one produced resolve's result
NothingAfterAResult == \A j \in Calls : j < Len(calls) => ~IsHit(calls[j]) /\ ~IsInvoke(calls[j])

\* "self", "me" and None are answered with no storage or network call
ShortcutMakesNoCall ==
    is_connected /\ Shortcut /\ pc = "done" => calls = <<>> /\ result = Return("InputPeerSelf", 0)

\* a cache hit is returned, with no network invoke
HitIsReturned ==
    \A j \in Calls : IsHit(calls[j]) =>
        /\ pc = "done"
        /\ result.kind = "return"
        /\ result.what = "StoredPeer"
        /\ \A k \in Calls : ~IsInvoke(calls[k])

\* every network invoke comes after a cache lookup that missed
InvokeFollowsAMiss ==
    \A k \in Calls : IsInvoke(calls[k]) => \E j \in Calls : j < k /\ IsMiss(calls[j])

\* C1, as stated: on a connected client the tiers are attempted in order, a
\* tier only if no earlier one returned a result; the shortcut makes no call, a
\* cache hit is returned without a network invoke, and every network invoke
\* is preceded by a cache lookup that missed.
C1_Original ==
    /\ TiersInOrder
    /\ NothingAfterAResult
    /\ ShortcutMakesNoCall
    /\ HitIsReturned
    /\ InvokeFollowsAMiss

\* C1, amended: as C1, but a network invoke is preceded by a cache lookup that
\* missed only when use_cache is true; with use_cache false no storage call is
\* made at all and the network tiers are attempted directly.
C1_TierOrder ==
    /\ TiersInOrder
    /\ NothingAfterAResult
    /\ ShortcutMakesNoCall
    /\ HitIsReturned
    /\ use_cache => InvokeFollowsAMiss
    /\ ~use_cache => \A j \in Calls : ~IsStorageCall(calls[j])

\* a username that missed the cache through the SQLite fallback, was
\* normalized and then resolved over the network
C1_Witness ==
    /\ pc = "done"
    /\ use_cache
    /\ Len(calls) = 5
    /\ calls[1].op = "get_peer_by_username"
    /\ calls[3].op = "cursor.fetchone"
    /\ calls[4].op = "_parse_input_string"
    /\ calls[5].op = "ResolveUsername"
    /\ result.kind = "return"

---------------------------------------------------------------------------
(* C2 *)

\* C2: on a client that is not connected resolve raises ConnectionError for
\* every identifier and either value of use_cache, before any storage or
\* network call.
C2_NotConnected ==
    ~is_connected =>
        /\ calls = <<>>
        /\ pc \in {"start", "done"}
        /\ pc = "done" => result = Raise("ConnectionError")

C2_Witness ==
    /\ ~is_connected
    /\ pc = "done"
    /\ arg = StrId(SelfStr)
    /\ use_cache
    /\ result = Raise("ConnectionError")

---------------------------------------------------------------------------
(* C3 *)

CacheErrors == {"KeyError", "AttributeError", "OperationalError"}

\* C3: with use_cache true a failure of the cache tier is never raised to the
\* caller; resolve goes on to normalize and resolve over the network the
\* identifier it was given.
C3_CacheMissRecovered ==
    \A j \in Calls : IsMiss(calls[j]) =>
        /\ use_cache
        /\ ~(result.kind = "raise" /\ result.what \in CacheErrors)
        /\ pc \in {"normalize", "username_api", "by_id", "done"}
        /\ pc = "normalize" => peer_id = arg /\ j = Len(calls)
        /\ arg.t = "str" /\ pc # "normalize" =>
              /\ Len(calls) > j
              /\ calls[j + 1] = Call("_parse_input_string", 0, arg.s, "ok")
        /\ pc = "done" =>
              \/ IsInvoke(calls[Len(calls)])
              \/ result = Raise("ValueError") /\ get_peer_type(peer_id.i) = "ValueError"

\* the SQLite query failed with OperationalError and the username was
\* resolved over the network all the same
C3_Witness ==
    /\ pc = "done"
    /\ Len(calls) = 4
    /\ calls[2] = Call("conn.execute", 0, Lower(arg.s), "OperationalError")
    /\ calls[4].op = "ResolveUsername"
    /\ result.kind = "return"

---------------------------------------------------------------------------
(* C4 *)

InvalidAnswers == {"PeerChat", "None"}

\* C4: when the answer to ResolveUsername carries neither a user peer nor a
\* channel peer, resolve ends by raising PeerIdInvalid and returns nothing.
C4_InvalidPeerSurfaced ==
    \A j \in Calls : calls[j].op = "ResolveUsername" /\ calls[j].out \in InvalidAnswers =>
        /\ pc = "done"
        /\ result = Raise("PeerIdInvalid")

C4_Witness ==
    /\ pc = "done"
    /\ calls # <<>>
    /\ calls[Len(calls)].op = "ResolveUsername"
    /\ calls[Len(calls)].out = "PeerChat"
    /\ result = Raise("PeerIdInvalid")

---------------------------------------------------------------------------
(* C5 *)

\* C5, as stated: when network resolution by username raises the invalid-peer
\* error, resolve does not end there: the numeric-id tier is attempted next.
C5_Original ==
    \A j \in Calls : calls[j].op = "ResolveUsername" /\ calls[j].out \in InvalidAnswers =>
        \/ pc = "by_id"
        \/ \E k \in Calls : k > j /\ calls[k].op \in ByIdOps

\* C5, amended: the username tier is the last one attempted: whatever the
\* server answers, resolve ends with the outcome of that tier, and neither a
\* numeric-id request nor an error of the numeric-id tier follows it.
C5_UsernameTierIsLast ==
    \A j \in Calls : calls[j].op = "ResolveUsername" =>
        /\ j = Len(calls)
        /\ pc = "done"
        /\ \A k \in Calls : calls[k].op \notin ByIdOps
        /\ result.kind = "raise" => result.what = "PeerIdInvalid"

C5_Witness ==
    /\ pc = "done"
    /\ use_cache
    /\ Len(calls) = 3
    /\ IsMiss(calls[1])
    /\ calls[3].op = "ResolveUsername"
    /\ calls[3].out = "None"
    /\ result = Raise("PeerIdInvalid")

---------------------------------------------------------------------------
(* C6 *)

DocumentedErrors == {"ConnectionError", "KeyError", "IndexError", "LookupError", "PeerIdInvalid"}

\* C6: every completed call of resolve returns a peer reference or raises a
\* connection error, a lookup error or the invalid-peer error, and nothing
\* else (IndexError and KeyError count as lookup errors).
C6_OnlyDocumentedErrors ==
    pc = "done" => result.kind = "return" \/ result.what \in DocumentedErrors

---------------------------------------------------------------------------
(* C7 *)

InChannelRange(x) == 0 - (IdBase + IdWidth - 1) <= x /\ x < 0 - IdBase
InChatRange(x) == 0 - (IdWidth - 1) <= x /\ x < 0
InUserRange(x) == 0 < x /\ x <= IdBase - 1

\* resolve has ended in the numeric-id tier
EndedById ==
    /\ pc = "done"
    /\ is_connected
    /\ peer_id.t = "int"
    /\ calls # <<>> => ~IsHit(calls[Len(calls)])

InvokesMade == {j \in Calls : IsInvoke(calls[j])}

\* C7: an id in the channel range is resolved with exactly one request,
\* GetChannels, for the raw channel id c of the marked id -(IdBase + c); an
\* id in the user range with GetUsers for that id only, an id in the chat
\* range with GetChats for its negation only.
C7_ChannelBranch ==
    EndedById =>
        LET x == peer_id.i
            sent == {[op |-> calls[j].op, id |-> calls[j].id] : j \in InvokesMade}
        IN /\ Cardinality(InvokesMade) <= 1
           /\ InChannelRange(x) =>
                \E c \in 1..(IdWidth - 1) :
                    x = 0 - (IdBase + c) /\ sent = {[op |-> "GetChannels", id |-> c]}
           /\ InUserRange(x) => sent = {[op |-> "GetUsers", id |-> x]}
           /\ InChatRange(x) => sent = {[op |-> "GetChats", id |-> 0 - x]}

\* the id extracted from the link t.me/1 is resolved as channel 1
C7_Witness ==
    /\ EndedById
    /\ arg = StrId(TMeHost \o <<"1">>)
    /\ peer_id = IntId(0 - (IdBase + 1))
    /\ calls[Len(calls)].op = "GetChannels"
    /\ calls[Len(calls)].id = 1

---------------------------------------------------------------------------
(* C10 *)

\* C10: the reference resolve returns for a username carries the raw id of
\* the server's answer: channel_id = c for PeerChannel(c), user_id = u for
\* PeerUser(u).
C10_RawIdKept ==
    \A j \in Calls : calls[j].op = "ResolveUsername" =>
        /\ calls[j].out = "PeerChannel" => result = Return("InputPeerChannel", calls[j].id)
        /\ calls[j].out = "PeerUser" => result = Return("InputPeerUser", calls[j].id)

---------------------------------------------------------------------------
(* C8 *)

\* C8, as stated: whenever _parse_input_string(s) is a string r,
\* _parse_input_string(r) is r again.
C8_Original == parse_pc = 2 => parse_again = parse_out

\* C8, amended: whenever _parse_input_string(s) is a string r that does not
\* itself match the link pattern, _parse_input_string(r) is r again.
C8_Idempotent ==
    parse_pc = 2 /\ LinkMatch(Lower(parse_out.s)) = <<>> => parse_again = parse_out

\* "@A" is normalized to "a", and "a" to itself
C8_Witness ==
    /\ parse_pc = 2
    /\ parse_in = <<"@", "A">>
    /\ parse_out = StrId(<<"a">>)
    /\ parse_again = parse_out

---------------------------------------------------------------------------
(* C9 *)

LinkPrefixes == {sch \o h : sch \in {<<>>, HttpScheme, HttpsScheme}, h \in LinkHosts}

\* str is a link to one of the hosts, with or without a scheme
IsLink(str) == \E p \in LinkPrefixes : StartsWith(Lower(str), p)

\* the text after the host's "/"
LinkPath(str) ==
    LET p == CHOOSE q \in LinkPrefixes : StartsWith(Lower(str), q)
    IN Drop(str, Len(p))

UpToSlash(str) ==
    LET n == CHOOSE k \in 0..Len(str) :
                 /\ \A j \in 1..k : str[j] # "/"
                 /\ (k = Len(str) \/ str[k + 1] = "/")
    IN SubSeq(str, 1, n)

\* the path segment that names the peer: the first one, or the one after the
\* c/ of a private-channel link; compared without regard to case
PathSegment(str) ==
    LET path == Lower(LinkPath(str))
    IN IF StartsWith(path, CPrefix) /\ Len(path) > Len(CPrefix)
       THEN UpToSlash(Drop(path, Len(CPrefix)))
       ELSE UpToSlash(path)

\* C9: for a link with a path segment, _parse_input_string returns that
\* segment: as a string when it is not a number, as the channel id
\* -(IdBase + n) when it is the number n.
C9_LinkSegment ==
    parse_pc >= 1 /\ IsLink(parse_in) /\ PathSegment(parse_in) # <<>> =>
        LET seg == PathSegment(parse_in)
        IN parse_out = IF IsIntLiteral(seg) THEN IntId(0 - (IdBase + IntOf(seg)))
                       ELSE StrId(seg)

===========================================================================
